---- MODULE Spec2Model ----
(***************************************************************************)
(* State-machine model of the news aggregation and caching pipeline of the *)
(* News Aggregator API: NewsService (provider adapters, search,            *)
(* personalized aggregation, synthetic fallback), the Article factory and  *)
(* the NodeCache instance the service owns.                                *)
(*                                                                         *)
(* Time is counted in ticks of one hour: the default cache TTL (3600 s)    *)
(* and the spacing of the synthetic articles (3600000 ms) are both one     *)
(* tick.  An async function runs without interruption from one await to    *)
(* the next, so every action below is one such run.                        *)
(***************************************************************************)
EXTENDS Integers, Sequences, FiniteSets, TLC

(***************************************************************************)
(* Bounds of the model.                                                    *)
(***************************************************************************)
MaxTime == 2        \* the clock runs from 0 to MaxTime
StdTTL == 1         \* config.cache.ttl (3600 s), in ticks
MaxLimit == 5       \* getPersonalizedNews is called with limit in 1..MaxLimit
MaxPrefs == 2       \* preference lists have at most MaxPrefs entries
MaxCalls == 2       \* getPersonalizedNews calls per behaviour
NumSearchCalls == 2 \* searchNews calls per behaviour (they may overlap)
NumRegistrations == 2 \* signup requests per behaviour (they may overlap)
MaxUsers == 2       \* User objects constructed per behaviour of SpecStore
MaxApplications == 2 \* getMockArticles applications per behaviour of SpecMock
MaxDedupLen == 3    \* removeDuplicates is applied to lists of at most this length
MaxConstructions == 3 \* Article objects constructed per behaviour of SpecIds

Providers == {"newsapi", "gnews"}
Categories == {"general", "technology"}
Keywords == {"k1"}
Limits == 1..MaxLimit
PageSizes == {1, 2}
SearchCalls == 1..NumSearchCalls
Registrations == 1..NumRegistrations
UserIds == 1..MaxUsers

\* Preference lists: every list over Categories with at most MaxPrefs entries
\* (the service itself accepts repeated entries and the empty list).
PreferenceLists == UNION {[1..n -> Categories] : n \in 0..MaxPrefs}

(***************************************************************************)
(* Dates.  new Date(x) of a missing or unparsable x is an Invalid Date,    *)
(* whose numeric value is NaN.                                             *)
(***************************************************************************)
InvalidDate == [valid |-> FALSE, time |-> 0]

MkDate(t) == [valid |-> TRUE, time |-> t]

\* A date string as it appears in a payload: the ISO text of time t, or a
\* missing / unparsable field.
Iso(t) == [text |-> "iso", t |-> t]

NoDate == [text |-> "", t |-> 0]

\* date.toISOString()
toISOString(d) == Iso(d.time)

\* new Date(publishedAt)
ParseDate(s) == IF s.text = "iso" THEN MkDate(s.t) ELSE InvalidDate

(***************************************************************************)
(* Raw provider payloads.  A raw item has a title, a url and a publishedAt *)
(* date string; "" stands for a missing title or url.                      *)
(***************************************************************************)
Raw(title, url, publishedAt) ==
  [title |-> title, url |-> url, publishedAt |-> publishedAt]

\* The article arrays a provider may answer with.
ResponseBodies ==
  { <<>>,
    <<Raw("t", "a", Iso(1))>>,
    <<Raw("t", "b", NoDate), Raw("t", "c", Iso(3))>>,
    <<Raw("t", "a", Iso(2)), Raw("", "b", Iso(1)), Raw("t", "", Iso(3))>> }

\* What one external request can end in: the request fails (network error,
\* timeout, non-2xx: axios rejects), the body has no articles field, the
\* articles field is not an array of objects, or an array of raw items.
Outcomes ==
  {[kind |-> k, body |-> <<>>] : k \in {"error", "nodata", "malformed"}}
    \cup {[kind |-> "ok", body |-> b] : b \in ResponseBodies}

(***************************************************************************)
(* Article entity factory.                                                 *)
(***************************************************************************)
\* Article.generateId(): '_' + Math.random().toString(36).substr(2, 9).  The
\* id of an article names the construction that made it: the kind of call
\* ("news", "search", "mock"), the provider, the number of the call, the
\* index of the category and the position j in the list under construction.
\* Two constructions therefore never draw the same id.
generateId(seed, j) == <<seed.kind, seed.p, seed.call, seed.i, j>>

Seed(kind, p, call, i) == [kind |-> kind, p |-> p, call |-> call, i |-> i]

Article(id, url, publishedAt, category) ==
  [id |-> id, url |-> url, publishedAt |-> ParseDate(publishedAt),
   category |-> category]

fromNewsAPI(id, article, category) ==
  Article(id, article.url, article.publishedAt, category)

fromGNews(id, article, category) ==
  Article(id, article.url, article.publishedAt, category)

\* .filter(article => article.title && article.url)
HasTitleAndUrl(article) == article.title # "" /\ article.url # ""

RECURSIVE SelectKept(_)
SelectKept(body) ==
  IF body = <<>> THEN <<>>
  ELSE (IF HasTitleAndUrl(Head(body)) THEN <<Head(body)>> ELSE <<>>)
         \o SelectKept(Tail(body))

\* response.data.articles.filter(...).map(article => Article.fromX(article, category))
FormatArticles(p, body, category, seed) ==
  LET kept == SelectKept(body)
  IN [j \in 1..Len(kept) |->
        IF p = "newsapi" THEN fromNewsAPI(generateId(seed, j), kept[j], category)
        ELSE fromGNews(generateId(seed, j), kept[j], category)]

(***************************************************************************)
(* Cache layer: the NodeCache instance of the service.  An entry holds the *)
(* value and its expiry time t = (time of set) + stdTTL; get treats an     *)
(* entry with t < now as absent (whether NodeCache has already deleted an  *)
(* expired entry or not cannot be told through get).                       *)
(***************************************************************************)
NewsKey(p, category, pageSize) == <<p, category, "en", pageSize>>

SearchKey(keyword, pageSize) == <<"search", keyword, "en", pageSize>>

\* A CacheGet that never lets an entry expire.
CacheGetForever(c, key, t) ==
  IF key \in DOMAIN c
  THEN [found |-> TRUE, v |-> c[key].v]
  ELSE [found |-> FALSE, v |-> <<>>]

\* this.cache.get(key): found = FALSE stands for undefined
CacheGet(c, key, t) ==
  IF key \in DOMAIN c /\ ~(c[key].t < t)
  THEN [found |-> TRUE, v |-> c[key].v]
  ELSE [found |-> FALSE, v |-> <<>>]

\* A store that leaves an entry already under the key as it is.
CacheSetIfAbsent(c, key, value, t) ==
  IF key \in DOMAIN c
  THEN c
  ELSE [k \in DOMAIN c \cup {key} |->
          IF k = key THEN [v |-> value, t |-> t + StdTTL] ELSE c[k]]

\* this.cache.set(key, value)
CacheSet(c, key, value, t) ==
  [k \in DOMAIN c \cup {key} |->
     IF k = key THEN [v |-> value, t |-> t + StdTTL] ELSE c[k]]

\* A lookup that takes only a non-empty cached list for a hit.
IsCacheHitNonEmpty(got) == got.found /\ Len(got.v) > 0

\* if (cachedArticles): undefined is falsy, every array (also []) is truthy
IsCacheHit(got) == got.found

(***************************************************************************)
(* Synthetic fallback generator.                                           *)
(***************************************************************************)
\* categories.includes(x)
Includes(list, x) == \E i \in 1..Len(list) : list[i] = x

\* The five sample articles, published now, now - 1h, ..., now - 4h.
baseArticles(t) ==
  << Raw("Breaking: Technology Advances in 2024", "tech-news-1",
         toISOString(MkDate(t))),
     Raw("Global Business Trends Show Positive Growth", "business-news-1",
         toISOString(MkDate(t - 1))),
     Raw("Sports Championship Finals Draw Record Viewers", "sports-news-1",
         toISOString(MkDate(t - 2))),
     Raw("Health Research Breakthrough in Disease Treatment", "health-news-1",
         toISOString(MkDate(t - 3))),
     Raw("Entertainment Industry Embraces New Digital Platforms",
         "entertainment-news-1", toISOString(MkDate(t - 4))) >>

\* A selection that hands out three samples whatever the categories are.
relevantArticlesThree(categories, t) == SubSeq(baseArticles(t), 1, 3)

\* categories.includes('general') ? baseArticles : baseArticles.slice(0, 3)
relevantArticles(categories, t) ==
  IF Includes(categories, "general") THEN baseArticles(t)
  ELSE SubSeq(baseArticles(t), 1, 3)

\* A tag that is 'general' whatever the list holds.
mockCategoryGeneral(categories) == "general"

\* categories[0] || 'general'
mockCategory(categories) ==
  IF categories # <<>> THEN categories[1] ELSE "general"

getMockArticles(categories, t, call) ==
  LET relevant == relevantArticles(categories, t)
  IN [j \in 1..Len(relevant) |->
        fromNewsAPI(generateId(Seed("mock", "none", call, 0), j), relevant[j],
                    mockCategory(categories))]

(***************************************************************************)
(* Deduplication, sorting and truncation.                                  *)
(***************************************************************************)
RECURSIVE DedupFrom(_, _)
DedupFrom(articles, seen) ==
  IF articles = <<>> THEN <<>>
  ELSE IF Head(articles).url \in seen THEN DedupFrom(Tail(articles), seen)
  ELSE <<Head(articles)>>
         \o DedupFrom(Tail(articles), seen \cup {Head(articles).url})

\* A deduplication that keeps every article.
removeDuplicatesNone(articles) == articles

removeDuplicates(articles) == DedupFrom(articles, {})

\* (a, b) => new Date(b.publishedAt) - new Date(a.publishedAt); a NaN result
\* counts as +0 in Array.prototype.sort
compareByDate(a, b) ==
  IF a.publishedAt.valid /\ b.publishedAt.valid
  THEN b.publishedAt.time - a.publishedAt.time
  ELSE 0

\* Array.prototype.sort as Node runs it on a short array: the leading run is
\* found (and reversed when strictly descending under the comparator), the
\* other elements are placed by binary insertion.
RECURSIVE RunLength(_, _, _)
RunLength(s, idx, descending) ==
  IF idx > Len(s) THEN Len(s)
  ELSE LET order == compareByDate(s[idx], s[idx - 1])
       IN IF (descending /\ order >= 0) \/ (~descending /\ order < 0)
          THEN idx - 1
          ELSE RunLength(s, idx + 1, descending)

Reverse(s) == [i \in 1..Len(s) |-> s[Len(s) + 1 - i]]

\* The insertion point of pivot in s[left + 1 .. right] (0-based bounds).
RECURSIVE InsertionPoint(_, _, _, _)
InsertionPoint(s, pivot, left, right) ==
  IF left >= right THEN left
  ELSE LET mid == left + ((right - left) \div 2)
       IN IF compareByDate(pivot, s[mid + 1]) < 0
          THEN InsertionPoint(s, pivot, left, mid)
          ELSE InsertionPoint(s, pivot, mid + 1, right)

RECURSIVE BinaryInsertionSort(_, _)
BinaryInsertionSort(s, start) ==
  IF start > Len(s) THEN s
  ELSE LET pivot == s[start]
           at == InsertionPoint(s, pivot, 0, start - 1)
           placed == SubSeq(s, 1, at) \o <<pivot>> \o SubSeq(s, at + 1, start - 1)
                       \o SubSeq(s, start + 1, Len(s))
       IN BinaryInsertionSort(placed, start + 1)

\* uniqueArticles.sort((a, b) => new Date(b.publishedAt) - new Date(a.publishedAt))
SortByDate(s) ==
  IF Len(s) < 2 THEN s
  ELSE LET descending == compareByDate(s[2], s[1]) < 0
           run == RunLength(s, 3, descending)
           made == IF descending
                   THEN Reverse(SubSeq(s, 1, run)) \o SubSeq(s, run + 1, Len(s))
                   ELSE s
       IN BinaryInsertionSort(made, run + 1)

\* A truncation that keeps one entry too many.
SliceInclusive(s, n) == SubSeq(s, 1, IF n + 1 < Len(s) THEN n + 1 ELSE Len(s))

\* A truncation that ignores the limit.
SliceAll(s, n) == s

\* s.slice(0, n), n >= 0
Slice(s, n) == SubSeq(s, 1, IF n < Len(s) THEN n ELSE Len(s))

\* The largest page size a provider request asks for.
ProviderMax == 100

\* Math.min(count, 100)
CapToProvider(count) == IF count < ProviderMax THEN count ELSE ProviderMax

\* Math.ceil(limit / 2)
HalfCeil(limit) == (limit + 1) \div 2

(***************************************************************************)
(* User entity and the Store (DataStore): users keyed by email, articles   *)
(* keyed by id.  The created / updated timestamps of a user are left out.  *)
(***************************************************************************)
\* config.defaultPreferences.categories
defaultCategories ==
  {"general", "technology", "business", "health", "science", "sports",
   "entertainment", "movies", "comics", "games"}

\* The largest preference list the validators accept.
MaxPreferences == 10

\* map.set(key, value)
MapSet(m, key, value) ==
  [k \in DOMAIN m \cup {key} |-> IF k = key THEN value ELSE m[k]]

\* new User({ name, email, password, preferences = [] }); the constructor
\* sets no deletedAt: <<>> stands for undefined, <<t>> for the Date of time t
User(id, userData) ==
  [id |-> id, email |-> userData.email, preferences |-> userData.preferences,
   readArticles |-> {}, favoriteArticles |-> {}, deletedAt |-> <<>>]

updatePreferences(user, newPreferences) ==
  [user EXCEPT !.preferences = newPreferences]

markAsRead(user, articleId) ==
  [user EXCEPT !.readArticles = @ \cup {articleId}]

markAsFavorite(user, articleId) ==
  [user EXCEPT !.favoriteArticles = @ \cup {articleId}]

\* A removal that adds the id when the set does not hold it.
removeFavoriteToggle(user, articleId) ==
  [user EXCEPT !.favoriteArticles =
     IF articleId \in @ THEN @ \ {articleId} ELSE @ \cup {articleId}]

\* this.favoriteArticles.delete(articleId)
removeFavorite(user, articleId) ==
  [user EXCEPT !.favoriteArticles = @ \ {articleId}]

EmptyStore == [users |-> <<>>, articles |-> <<>>]

createUser(d, id, userData) ==
  [d EXCEPT !.users = MapSet(d.users, userData.email, User(id, userData))]

userExists(d, email) == email \in DOMAIN d.users

\* A lookup that falls back on some stored user when no id matches.
getUserByIdAny(d, id) ==
  LET matching == {e \in DOMAIN d.users : d.users[e].id = id}
  IN IF matching # {}
     THEN [found |-> TRUE, email |-> CHOOSE e \in matching : TRUE]
     ELSE IF DOMAIN d.users # {}
     THEN [found |-> TRUE, email |-> CHOOSE e \in DOMAIN d.users : TRUE]
     ELSE [found |-> FALSE, email |-> ""]

\* getUserById(id): found = FALSE stands for null; a found user is named by
\* the key it is stored under.
getUserById(d, id) ==
  LET matching == {e \in DOMAIN d.users : d.users[e].id = id}
  IN IF matching # {}
     THEN [found |-> TRUE, email |-> CHOOSE e \in matching : TRUE]
     ELSE [found |-> FALSE, email |-> ""]

storeArticle(d, article) ==
  [d EXCEPT !.articles = MapSet(d.articles, article.id, article)]

RECURSIVE storeArticles(_, _)
storeArticles(d, articlesArray) ==
  IF articlesArray = <<>> THEN d
  ELSE storeArticles(storeArticle(d, Head(articlesArray)), Tail(articlesArray))

\* A mark that is put on every user of the Store.
markArticleAsReadAll(d, userId, articleId) ==
  [dataStore |->
     [d EXCEPT !.users = [e \in DOMAIN d.users |->
                            markAsRead(d.users[e], articleId)]],
   result |-> TRUE]

markArticleAsRead(d, userId, articleId) ==
  LET user == getUserById(d, userId)
  IN IF user.found
     THEN [dataStore |-> [d EXCEPT !.users[user.email] = markAsRead(@, articleId)],
           result |-> TRUE]
     ELSE [dataStore |-> d, result |-> FALSE]

markArticleAsFavorite(d, userId, articleId) ==
  LET user == getUserById(d, userId)
  IN IF user.found
     THEN [dataStore |-> [d EXCEPT !.users[user.email] =
                                     markAsFavorite(@, articleId)],
           result |-> TRUE]
     ELSE [dataStore |-> d, result |-> FALSE]

removeFavoriteArticle(d, userId, articleId) ==
  LET user == getUserById(d, userId)
  IN IF user.found
     THEN [dataStore |-> [d EXCEPT !.users[user.email] =
                                     removeFavorite(@, articleId)],
           result |-> TRUE]
     ELSE [dataStore |-> d, result |-> FALSE]

(***************************************************************************)
(* State.                                                                  *)
(***************************************************************************)
VARIABLES
  newsApiKey,   \* config.newsApi.newsApiKey is set
  gnewsApiKey,  \* config.newsApi.gnewsApiKey is set
  now,          \* Date.now(), in ticks
  cache,        \* this.cache: key -> [v, t]
  pn,           \* the getPersonalizedNews call in progress or last returned
  fa,           \* per provider, the category fetch that call started
  calls,        \* getPersonalizedNews calls started so far
  sn,           \* the searchNews calls
  stored,       \* history: key -> value and time of the last cache.set
  dataStore,    \* the DataStore singleton: users and articles
  constructed,  \* User objects constructed so far
  rg,           \* the registration requests
  last,         \* history: the last Store operation or preference update
  rq,           \* the GET /news and GET /news/search requests
  fn            \* the last applications of a function of the service

newsVars == <<newsApiKey, gnewsApiKey, now, cache, pn, fa, calls, sn, stored>>

storeVars == <<dataStore, constructed, rg, last, rq, fn>>

vars == <<newsApiKey, gnewsApiKey, now, cache, pn, fa, calls, sn, stored,
          dataStore, constructed, rg, last, rq, fn>>

NoCompletion == [kind |-> "none", value |-> <<>>]

Return(value) == [kind |-> "return", value |-> value]

Throw == [kind |-> "throw", value |-> <<>>]

\* requests counts the external requests the adapter has issued in this call.
IdleFetch ==
  [pc |-> "idle", i |-> 0, articles |-> <<>>, completion |-> NoCompletion,
   requests |-> 0]

\* responses and first are history: the outcomes each adapter has received
\* in this call, and the adapter that was the first to return after a
\* response ("none" before that).
IdleNews ==
  [pc |-> "idle", preferences |-> <<>>, limit |-> 1, completion |-> NoCompletion,
   responses |-> [p \in Providers |-> <<>>], first |-> "none"]

\* requests, asked (the article count each request asked for), failures (the
\* requests that failed), fromCache, startedAt, returnedAt and after (the
\* calls with the same arguments that had returned when this one started) are
\* history.
IdleSearch ==
  [pc |-> "idle", keyword |-> "k1", pageSize |-> 1, articles |-> <<>>,
   completion |-> NoCompletion, requests |-> [p \in Providers |-> 0],
   asked |-> [p \in Providers |-> 0], failures |-> 0,
   fromCache |-> FALSE, startedAt |-> 0, returnedAt |-> 0, after |-> {}]

IdleRegistration ==
  [pc |-> "idle", email |-> "", preferences |-> <<>>, status |-> 0, userId |-> 0]

NoArticleId == <<"none", "none", 0, 0, 0>>

\* What the last operation was, what it answered, and the Store before it.
Operation(op, userId, articleId, result, status, before) ==
  [op |-> op, userId |-> userId, articleId |-> articleId, result |-> result,
   status |-> status, before |-> before]

NoOperation == Operation("none", 0, NoArticleId, FALSE, 0, EmptyStore)

NoResponse ==
  [status |-> 0, news |-> <<>>,
   pagination |-> [page |-> 0, limit |-> 0, total |-> 0, totalPages |-> 0,
                   hasNext |-> FALSE, hasPrev |-> FALSE]]

\* History of the GET /news request before the current one: who asked, with
\* which preferences, limit and page, and which of the returned articles
\* (by url) that user has marked since ("read", "favorite").
NoEarlier ==
  [userId |-> 0, preferences |-> <<>>, limit |-> 0, page |-> 0, marks |-> {}]

\* A request handler: its query, the preferences it asked the service for,
\* the searchNews call it made (c), the list the service returned to it
\* (articles) and the response it sent; history: the marks its user has put
\* on articles of that response since (marks), and the request before it.
IdleRequest ==
  [pc |-> "idle", userId |-> 0, page |-> 1, limit |-> 1, c |-> 0,
   preferences |-> <<>>, articles |-> <<>>, response |-> NoResponse,
   marks |-> {}, earlier |-> NoEarlier]

\* The applications of a function called by itself: how many there were
\* (n), the argument and the result of the last one, and those of the one
\* before it.
NoApplication ==
  [op |-> "none", n |-> 0, input |-> <<>>, output |-> <<>>,
   prevInput |-> <<>>, prevOutput |-> <<>>]

Configured(p) == IF p = "newsapi" THEN newsApiKey ELSE gnewsApiKey

\* History of cache.set: the value stored under key and when.
Remember(h, key, value, t) ==
  [k \in DOMAIN h \cup {key} |->
     IF k = key THEN [v |-> value, at |-> t] ELSE h[k]]

(***************************************************************************)
(* Provider adapters: fetchFromNewsAPI / fetchFromGNews.                   *)
(***************************************************************************)
\* The for loop from category i on, up to the next await or the return:
\* a cache hit appends the cached articles and continues, a miss issues the
\* request for that category and suspends.
RECURSIVE FetchLoop(_, _, _, _, _, _, _, _)
FetchLoop(p, categories, pageSize, i, articles, requests, c, t) ==
  IF i > Len(categories)
  THEN [pc |-> "done", i |-> i, articles |-> articles,
        completion |-> Return(articles), requests |-> requests]
  ELSE LET cachedArticles == CacheGet(c, NewsKey(p, categories[i], pageSize), t)
       IN IF IsCacheHit(cachedArticles)
          THEN FetchLoop(p, categories, pageSize, i + 1,
                         articles \o cachedArticles.v, requests, c, t)
          ELSE [pc |-> "await", i |-> i, articles |-> articles,
                completion |-> NoCompletion, requests |-> requests + 1]

\* An adapter without its catch block.
fetchRethrow(f) == f

\* catch (error) { console.error(...); return []; }
fetchCatch(f) ==
  IF f.completion.kind = "throw" THEN [f EXCEPT !.completion = Return(<<>>)]
  ELSE f

\* A start that leaves the GNews adapter out.
StartFetchNewsAPIOnly(p, categories, pageSize, c, t) ==
  IF ~Configured(p) \/ p = "gnews"
  THEN [pc |-> "done", i |-> 0, articles |-> <<>>, completion |-> Return(<<>>),
        requests |-> 0]
  ELSE fetchCatch(FetchLoop(p, categories, pageSize, 1, <<>>, 0, c, t))

\* The call of an adapter up to its first await.
StartFetch(p, categories, pageSize, c, t) ==
  IF ~Configured(p)
  THEN [pc |-> "done", i |-> 0, articles |-> <<>>, completion |-> Return(<<>>),
        requests |-> 0]
  ELSE fetchCatch(FetchLoop(p, categories, pageSize, 1, <<>>, 0, c, t))

\* The cache after the adapter has handled outcome o of its pending request.
CacheAfterResponse(p, f, categories, pageSize, o, c, t, call) ==
  IF o.kind = "ok"
  THEN CacheSet(c, NewsKey(p, categories[f.i], pageSize),
                FormatArticles(p, o.body, categories[f.i],
                               Seed("news", p, call, f.i)), t)
  ELSE c

\* The adapter from the settling of its pending request to its next await
\* or its return.
ResumeFetch(p, f, categories, pageSize, o, c, t, call) ==
  fetchCatch(
    CASE o.kind \in {"error", "malformed"} ->
           [f EXCEPT !.pc = "done", !.completion = Throw]
      [] o.kind = "nodata" ->
           FetchLoop(p, categories, pageSize, f.i + 1, f.articles, f.requests,
                     c, t)
      [] OTHER ->
           FetchLoop(p, categories, pageSize, f.i + 1,
                     f.articles
                       \o FormatArticles(p, o.body, categories[f.i],
                                         Seed("news", p, call, f.i)),
                     f.requests,
                     CacheAfterResponse(p, f, categories, pageSize, o, c, t,
                                        call), t))

(***************************************************************************)
(* Aggregation engine: getPersonalizedNews.                                *)
(***************************************************************************)
\* A fallback test that never substitutes the synthetic articles.
UseFallbackNever(allArticles) == FALSE

\* if (allArticles.length === 0)
UseFallback(allArticles) == Len(allArticles) = 0

\* A merge that puts the GNews articles first.
pushAllGNewsFirst(newsApiArticles, gnewsArticles) ==
  gnewsArticles \o newsApiArticles

\* allArticles.push(...newsApiArticles, ...gnewsArticles)
pushAll(newsApiArticles, gnewsArticles) == newsApiArticles \o gnewsArticles

\* The try block after Promise.all has settled.
PersonalizedTry(preferences, limit, newsApiDone, gnewsDone, t, call) ==
  IF newsApiDone.kind = "throw" \/ gnewsDone.kind = "throw" THEN Throw
  ELSE LET fetched == pushAll(newsApiDone.value, gnewsDone.value)
           allArticles == IF UseFallback(fetched)
                          THEN getMockArticles(preferences, t, call)
                          ELSE fetched
           uniqueArticles == removeDuplicates(allArticles)
       IN Return(Slice(SortByDate(uniqueArticles), limit))

\* catch (error) { return this.getMockArticles(preferences).slice(0, limit); }
PersonalizedCatch(done, preferences, limit, t, call) ==
  IF done.kind = "throw"
  THEN Return(Slice(getMockArticles(preferences, t, call), limit))
  ELSE done

\* getPersonalizedNews is called: both adapters start, each runs to its
\* first await (or returns at once).
CallPersonalizedNews(preferences, limit) ==
  /\ pn.pc \in {"idle", "done"}
  /\ calls' = calls + 1
  /\ pn' = [IdleNews EXCEPT !.pc = "fetching", !.preferences = preferences,
                            !.limit = limit]
  /\ fa' = [p \in Providers |->
              StartFetch(p, preferences, HalfCeil(limit), cache, now)]

\* A call of getPersonalizedNews by itself.
StartNews(preferences, limit) ==
  /\ CallPersonalizedNews(preferences, limit)
  /\ UNCHANGED <<newsApiKey, gnewsApiKey, now, cache, sn, stored>>
  /\ UNCHANGED storeVars

\* The pending request of adapter p settles with outcome o.
FetchResponse(p, o) ==
  /\ pn.pc = "fetching"
  /\ fa[p].pc = "await"
  /\ fa' = [fa EXCEPT ![p] = ResumeFetch(p, fa[p], pn.preferences,
                                         HalfCeil(pn.limit), o, cache, now,
                                         calls)]
  /\ cache' = CacheAfterResponse(p, fa[p], pn.preferences, HalfCeil(pn.limit),
                                 o, cache, now, calls)
  /\ stored' = IF o.kind = "ok"
               THEN Remember(stored,
                             NewsKey(p, pn.preferences[fa[p].i], HalfCeil(pn.limit)),
                             FormatArticles(p, o.body, pn.preferences[fa[p].i],
                                            Seed("news", p, calls, fa[p].i)),
                             now)
               ELSE stored
  /\ pn' = [pn EXCEPT !.responses[p] = Append(@, o),
                      !.first = IF @ = "none" /\ fa'[p].pc = "done" THEN p
                                ELSE @]
  /\ UNCHANGED <<newsApiKey, gnewsApiKey, now, calls, sn>>
  /\ UNCHANGED storeVars

\* Both adapters have settled: merge, fall back, deduplicate, sort, truncate.
Merge ==
  /\ pn.pc = "fetching"
  /\ \A p \in Providers : fa[p].pc = "done"
  /\ pn' = [pn EXCEPT
              !.pc = "done",
              !.completion =
                PersonalizedCatch(
                  PersonalizedTry(pn.preferences, pn.limit,
                                  fa["newsapi"].completion,
                                  fa["gnews"].completion, now, calls),
                  pn.preferences, pn.limit, now, calls)]
  /\ UNCHANGED <<newsApiKey, gnewsApiKey, now, cache, fa, calls, sn, stored>>
  /\ UNCHANGED storeVars

\* An hour passes.
Tick ==
  /\ now < MaxTime
  /\ now' = now + 1
  /\ UNCHANGED <<newsApiKey, gnewsApiKey, cache, pn, fa, calls, sn, stored>>
  /\ UNCHANGED storeVars

Init ==
  /\ newsApiKey \in BOOLEAN
  /\ gnewsApiKey \in BOOLEAN
  /\ now = 0
  /\ cache = <<>>
  /\ pn = IdleNews
  /\ fa = [p \in Providers |-> IdleFetch]
  /\ calls = 0
  /\ sn = [c \in SearchCalls |-> IdleSearch]
  /\ stored = <<>>
  /\ dataStore = EmptyStore
  /\ constructed = 0
  /\ rg = [r \in Registrations |-> IdleRegistration]
  /\ last = NoOperation
  /\ rq = [news |-> IdleRequest, search |-> IdleRequest]
  /\ fn = NoApplication

(***************************************************************************)
(* searchNews.                                                             *)
(***************************************************************************)
\* The articles after a search request has settled with outcome o: a failure
\* is caught and logged, a body without articles adds nothing.
SearchArticles(p, articles, o, c) ==
  IF o.kind = "ok"
  THEN articles \o FormatArticles(p, o.body, "search", Seed("search", p, c, 0))
  ELSE articles

\* catch (error) { console.error(...) }: the request was rejected, or the
\* body made the try block throw
Failed(o) == IF o.kind \in {"error", "malformed"} THEN 1 ELSE 0

\* this.cache.set(cacheKey, articles); return articles;
SearchReturn(s, articles, t) ==
  [s EXCEPT !.pc = "done", !.articles = articles,
            !.completion = Return(articles), !.returnedAt = t]

\* if (config.newsApi.gnewsApiKey && articles.length < pageSize)
AsksGNews(articles, pageSize) == gnewsApiKey /\ Len(articles) < pageSize

\* searchNews from the GNews block on: either the GNews request is issued,
\* or the result is cached and returned.
SearchAfterNewsAPI(c, articles, failures) ==
  IF AsksGNews(articles, sn[c].pageSize)
  THEN /\ sn' = [sn EXCEPT ![c].pc = "awaitGNews", ![c].articles = articles,
                           ![c].failures = failures,
                           ![c].requests["gnews"] = @ + 1,
                           ![c].asked["gnews"] =
                             CapToProvider(sn[c].pageSize - Len(articles))]
       /\ UNCHANGED <<cache, stored>>
  ELSE /\ sn' = [sn EXCEPT ![c] =
                    SearchReturn([sn[c] EXCEPT !.failures = failures], articles,
                                 now)]
       /\ cache' = CacheSet(cache, SearchKey(sn[c].keyword, sn[c].pageSize),
                            articles, now)
       /\ stored' = Remember(stored, SearchKey(sn[c].keyword, sn[c].pageSize),
                             articles, now)

\* searchNews is called: a cache hit returns at once, otherwise the NewsAPI
\* request is issued when that provider is configured.  Calls are numbered in
\* the order they are made.
CallSearchNews(c, keyword, pageSize) ==
  /\ sn[c].pc = "idle"
  /\ \A d \in SearchCalls : d < c => sn[d].pc # "idle"
  /\ LET cachedResults == CacheGet(cache, SearchKey(keyword, pageSize), now)
         started == [IdleSearch EXCEPT
                       !.keyword = keyword, !.pageSize = pageSize,
                       !.startedAt = now,
                       !.after = {d \in SearchCalls :
                                    /\ sn[d].pc = "done"
                                    /\ sn[d].keyword = keyword
                                    /\ sn[d].pageSize = pageSize}]
     IN IF IsCacheHit(cachedResults)
        THEN /\ sn' = [sn EXCEPT ![c] =
                         [SearchReturn(started, cachedResults.v, now)
                            EXCEPT !.fromCache = TRUE]]
             /\ UNCHANGED <<cache, stored>>
        ELSE IF newsApiKey
        THEN /\ sn' = [sn EXCEPT ![c] =
                         [started EXCEPT !.pc = "awaitNewsAPI",
                                         !.requests["newsapi"] = 1,
                                         !.asked["newsapi"] =
                                           CapToProvider(pageSize)]]
             /\ UNCHANGED <<cache, stored>>
        ELSE IF AsksGNews(<<>>, pageSize)
        THEN /\ sn' = [sn EXCEPT ![c] =
                         [started EXCEPT !.pc = "awaitGNews",
                                         !.requests["gnews"] = 1,
                                         !.asked["gnews"] =
                                           CapToProvider(pageSize)]]
             /\ UNCHANGED <<cache, stored>>
        ELSE /\ sn' = [sn EXCEPT ![c] = SearchReturn(started, <<>>, now)]
             /\ cache' = CacheSet(cache, SearchKey(keyword, pageSize), <<>>, now)
             /\ stored' = Remember(stored, SearchKey(keyword, pageSize), <<>>, now)

\* A call of searchNews by itself.
StartSearch(c, keyword, pageSize) ==
  /\ CallSearchNews(c, keyword, pageSize)
  /\ UNCHANGED <<newsApiKey, gnewsApiKey, now, pn, fa, calls>>
  /\ UNCHANGED storeVars

\* The NewsAPI search request of call c settles with outcome o.
SearchNewsAPIResponse(c, o) ==
  /\ sn[c].pc = "awaitNewsAPI"
  /\ SearchAfterNewsAPI(c, SearchArticles("newsapi", sn[c].articles, o, c),
                        sn[c].failures + Failed(o))
  /\ UNCHANGED <<newsApiKey, gnewsApiKey, now, pn, fa, calls>>
  /\ UNCHANGED storeVars

\* The GNews search request of call c settles with outcome o.
SearchGNewsResponse(c, o) ==
  /\ sn[c].pc = "awaitGNews"
  /\ LET articles == SearchArticles("gnews", sn[c].articles, o, c)
     IN /\ sn' = [sn EXCEPT ![c] =
                     SearchReturn([sn[c] EXCEPT !.failures = @ + Failed(o)],
                                  articles, now)]
        /\ cache' = CacheSet(cache, SearchKey(sn[c].keyword, sn[c].pageSize),
                             articles, now)
        /\ stored' = Remember(stored, SearchKey(sn[c].keyword, sn[c].pageSize),
                              articles, now)
  /\ UNCHANGED <<newsApiKey, gnewsApiKey, now, pn, fa, calls>>
  /\ UNCHANGED storeVars

(***************************************************************************)
(* Registration (AuthController.register) and preference update            *)
(* (UserController.updatePreferences).                                     *)
(***************************************************************************)
\* Email addresses as they arrive in a request body.
RawEmails == {"a@x.io", "A@x.io", "b@x.io"}

\* express-validator normalizeEmail(): lower-cases the address
normalizeEmail(email) == IF email = "A@x.io" THEN "a@x.io" ELSE email

\* email.toLowerCase().trim()
toLowerCaseTrim(email) == IF email = "A@x.io" THEN "a@x.io" ELSE email

Passwords == {"Passw0rd!", "password"}

\* AuthService.validatePasswordStrength(password).isValid: eight characters,
\* an upper-case and a lower-case letter, a digit and a special character
validatePasswordStrength(password) == password = "Passw0rd!"

\* Preference arrays a signup body may carry.
RegistrationPreferences ==
  { <<>>, <<"technology">>, <<"general", "general">>, <<"gossip">>,
    [i \in 1..(MaxPreferences + 1) |-> "general"] }

\* Preference arrays a PUT /users/preferences body may carry.
UpdatePreferenceLists ==
  { <<>>, <<"sports", "health">>, <<"sports", "sports">>, <<"gossip">>,
    [i \in 1..(MaxPreferences + 1) |-> "general"] }

SignupBodies ==
  [email : RawEmails, password : Passwords, preferences : RegistrationPreferences]

\* getRegistrationValidation(), the preferences rule: an array of at most
\* ten entries
RegistrationValid(preferences) == Len(preferences) <= MaxPreferences

\* getPreferencesValidation(): an array of at most ten entries, no entry
\* twice (new Set(preferences).size === preferences.length)
PreferencesValid(preferences) ==
  /\ Len(preferences) <= MaxPreferences
  /\ Cardinality({preferences[i] : i \in 1..Len(preferences)}) = Len(preferences)

\* preferences.filter(pref => !config.defaultPreferences.categories.includes(pref))
invalidPreferences(preferences) ==
  SelectSeq(preferences, LAMBDA pref : pref \notin defaultCategories)

Rejected(r, email, status) ==
  [rg[r] EXCEPT !.pc = "done", !.email = email, !.status = status]

\* POST /users/signup up to the await of the password hash.  Requests are
\* numbered in the order they arrive.
Register(r, body) ==
  /\ rg[r].pc = "idle"
  /\ \A d \in Registrations : d < r => rg[d].pc # "idle"
  /\ LET email == normalizeEmail(body.email)
     IN rg' = [rg EXCEPT ![r] =
                 IF ~RegistrationValid(body.preferences)
                 THEN Rejected(r, email, 400)
                 ELSE IF userExists(dataStore, email)
                 THEN Rejected(r, email, 409)
                 ELSE IF ~validatePasswordStrength(body.password)
                 THEN Rejected(r, email, 400)
                 ELSE [pc |-> "hashing", email |-> toLowerCaseTrim(email),
                       preferences |-> body.preferences, status |-> 0,
                       userId |-> 0]]
  /\ UNCHANGED <<dataStore, constructed, last, rq, fn>>
  /\ UNCHANGED newsVars

\* The password hash of request r settles: the user is created and the
\* request answered with 200, or bcrypt failed and the answer is 500.
RegisterHashed(r, hashed) ==
  /\ rg[r].pc = "hashing"
  /\ IF hashed
     THEN /\ dataStore' = createUser(dataStore, constructed + 1,
                                     [email |-> rg[r].email,
                                      preferences |-> rg[r].preferences])
          /\ constructed' = constructed + 1
          /\ rg' = [rg EXCEPT ![r].pc = "done", ![r].status = 200,
                              ![r].userId = constructed + 1]
          /\ last' = Operation("createUser", constructed + 1, NoArticleId, TRUE,
                               200, dataStore)
     ELSE /\ rg' = [rg EXCEPT ![r].pc = "done", ![r].status = 500]
          /\ UNCHANGED <<dataStore, constructed, last>>
  /\ UNCHANGED <<rq, fn>>
  /\ UNCHANGED newsVars

\* The status PUT /users/preferences answers with.
UpdateStatus(d, userId, preferences) ==
  IF ~PreferencesValid(preferences) THEN 400
  ELSE IF ~getUserById(d, userId).found THEN 404
  ELSE IF Len(invalidPreferences(preferences)) > 0 THEN 400
  ELSE 200

\* PUT /users/preferences by the holder of a token for userId.
UpdatePreferences(userId, preferences) ==
  /\ LET status == UpdateStatus(dataStore, userId, preferences)
         user == getUserById(dataStore, userId)
     IN /\ dataStore' = IF status = 200
                        THEN [dataStore EXCEPT !.users[user.email] =
                                updatePreferences(@, preferences)]
                        ELSE dataStore
        /\ last' = Operation("updatePreferences", userId, NoArticleId,
                             status = 200, status, dataStore)
  /\ UNCHANGED <<constructed, rg, rq, fn>>
  /\ UNCHANGED newsVars

(***************************************************************************)
(* Operations of the Store.                                                *)
(***************************************************************************)
StoreEmails == {"a@x.io", "b@x.io"}

\* Two articles as getPersonalizedNews hands them to the Store.
StoreSamples ==
  LET mock == getMockArticles(<<"general">>, 0, 1) IN {mock[1], mock[2]}

ArticleIds == {a.id : a \in StoreSamples}

\* dataStore.createUser(userData)
CreateUser(email) ==
  /\ constructed < MaxUsers
  /\ dataStore' = createUser(dataStore, constructed + 1,
                             [email |-> email, preferences |-> <<>>])
  /\ constructed' = constructed + 1
  /\ last' = Operation("createUser", constructed + 1, NoArticleId, TRUE, 0,
                       dataStore)
  /\ UNCHANGED <<rg, rq, fn>>
  /\ UNCHANGED newsVars

\* dataStore.storeArticle(article)
StoreArticle(article) ==
  /\ dataStore' = storeArticle(dataStore, article)
  /\ last' = Operation("storeArticle", 0, article.id, TRUE, 0, dataStore)
  /\ UNCHANGED <<constructed, rg, rq, fn>>
  /\ UNCHANGED newsVars

\* dataStore.markArticleAsRead(userId, articleId)
MarkArticleAsRead(userId, articleId) ==
  /\ LET done == markArticleAsRead(dataStore, userId, articleId)
     IN /\ dataStore' = done.dataStore
        /\ last' = Operation("markArticleAsRead", userId, articleId,
                             done.result, 0, dataStore)
  /\ UNCHANGED <<constructed, rg, rq, fn>>
  /\ UNCHANGED newsVars

\* dataStore.markArticleAsFavorite(userId, articleId)
MarkArticleAsFavorite(userId, articleId) ==
  /\ LET done == markArticleAsFavorite(dataStore, userId, articleId)
     IN /\ dataStore' = done.dataStore
        /\ last' = Operation("markArticleAsFavorite", userId, articleId,
                             done.result, 0, dataStore)
  /\ UNCHANGED <<constructed, rg, rq, fn>>
  /\ UNCHANGED newsVars

\* dataStore.removeFavoriteArticle(userId, articleId)
RemoveFavoriteArticle(userId, articleId) ==
  /\ LET done == removeFavoriteArticle(dataStore, userId, articleId)
     IN /\ dataStore' = done.dataStore
        /\ last' = Operation("removeFavoriteArticle", userId, articleId,
                             done.result, 0, dataStore)
  /\ UNCHANGED <<constructed, rg, rq, fn>>
  /\ UNCHANGED newsVars

(***************************************************************************)
(* Request handlers: NewsController.getNews and NewsController.searchNews. *)
(***************************************************************************)
\* { ...article.toJSON(), isRead: user.isArticleRead(article.id),
\*   isFavorite: user.isArticleFavorite(article.id) }; without a user both
\* flags are false
Enrich(d, user, article) ==
  [article |-> article,
   isRead |-> user.found /\ article.id \in d.users[user.email].readArticles,
   isFavorite |->
     user.found /\ article.id \in d.users[user.email].favoriteArticles]

\* s.slice(startIndex, endIndex), 0 <= startIndex <= endIndex
SliceRange(s, startIndex, endIndex) ==
  SubSeq(s, startIndex + 1, IF endIndex < Len(s) THEN endIndex ELSE Len(s))

\* Math.ceil(a / b), b > 0
CeilDiv(a, b) == (a + b - 1) \div b

\* A total that counts the articles of the page.
paginationTotalOfPage(enrichedArticles, paginatedArticles) ==
  Len(paginatedArticles)

\* total: enrichedArticles.length
paginationTotal(enrichedArticles, paginatedArticles) == Len(enrichedArticles)

createPaginatedResponse(data, pagination) ==
  [status |-> 200, news |-> data,
   pagination |->
     [page |-> pagination.page, limit |-> pagination.limit,
      total |-> pagination.total,
      totalPages |-> CeilDiv(pagination.total, pagination.limit),
      hasNext |-> pagination.page < CeilDiv(pagination.total, pagination.limit),
      hasPrev |-> pagination.page > 1]]

createErrorResponse(status) == [NoResponse EXCEPT !.status = status]

\* The handler from the list the service returned to the response: the
\* flags of the user, the page, the pagination record.
PageResponse(d, userId, articlesReturned, pageNumber, limitNumber) ==
  LET user == getUserById(d, userId)
      enrichedArticles ==
        [k \in 1..Len(articlesReturned) |-> Enrich(d, user, articlesReturned[k])]
      startIndex == (pageNumber - 1) * limitNumber
      endIndex == startIndex + limitNumber
      paginatedArticles == SliceRange(enrichedArticles, startIndex, endIndex)
  IN createPaginatedResponse(
       paginatedArticles,
       [page |-> pageNumber, limit |-> limitNumber,
        total |-> paginationTotal(enrichedArticles, paginatedArticles)])

\* A handler that puts nothing into the Store.
StoreNothing(d, articlesReturned) == d

\* if (articles.length > 0) dataStore.storeArticles(articles)
StoreReturned(d, articlesReturned) ==
  IF Len(articlesReturned) > 0 THEN storeArticles(d, articlesReturned) ELSE d

\* let preferences = user.preferences.length > 0 ? user.preferences : ['general'];
\* if (category) preferences = [category]
NewsPreferences(user, category) ==
  IF category # "" THEN <<category>>
  ELSE IF Len(user.preferences) > 0 THEN user.preferences
  ELSE <<"general">>

\* What a new GET /news request remembers of the request that was there.
Earlier(request) ==
  IF request.pc = "done" /\ request.response.status = 200
  THEN [userId |-> request.userId, preferences |-> request.preferences,
        limit |-> request.limit, page |-> request.page,
        marks |-> request.marks]
  ELSE NoEarlier

\* GET /news up to the await of getPersonalizedNews; category "" stands for
\* no category in the query.
GetNews(userId, page, limit, category) ==
  /\ rq.news.pc \in {"idle", "done"}
  /\ LET user == getUserById(dataStore, userId)
     IN IF ~user.found
        THEN /\ rq' = [rq EXCEPT !.news =
                         [IdleRequest EXCEPT !.pc = "done", !.userId = userId,
                                             !.page = page, !.limit = limit,
                                             !.response = createErrorResponse(404)]]
             /\ UNCHANGED <<pn, fa, calls>>
        ELSE /\ rq' = [rq EXCEPT !.news =
                         [IdleRequest EXCEPT
                            !.pc = "await", !.userId = userId,
                            !.page = page, !.limit = limit,
                            !.preferences =
                              NewsPreferences(dataStore.users[user.email],
                                              category),
                            !.earlier = Earlier(rq.news)]]
             /\ CallPersonalizedNews(
                  NewsPreferences(dataStore.users[user.email], category),
                  limit * 2)
  /\ UNCHANGED <<newsApiKey, gnewsApiKey, now, cache, sn, stored>>
  /\ UNCHANGED <<dataStore, constructed, rg, last, fn>>

\* GET /news after getPersonalizedNews has returned: the articles are put
\* into the Store and the page is sent.
GetNewsRespond ==
  /\ rq.news.pc = "await"
  /\ pn.pc = "done"
  /\ dataStore' = StoreReturned(dataStore, pn.completion.value)
  /\ rq' = [rq EXCEPT
              !.news.pc = "done",
              !.news.articles = pn.completion.value,
              !.news.response =
                PageResponse(StoreReturned(dataStore, pn.completion.value),
                             rq.news.userId, pn.completion.value,
                             rq.news.page, rq.news.limit)]
  /\ last' = Operation("storeArticles", rq.news.userId, NoArticleId, TRUE, 200,
                       dataStore)
  /\ UNCHANGED <<constructed, rg, fn>>
  /\ UNCHANGED newsVars

\* GET /news/search/:keyword up to the await of searchNews (call c of the
\* service).
SearchNews(c, userId, keyword, page, limit) ==
  /\ rq.search.pc \in {"idle", "done"}
  /\ rq' = [rq EXCEPT !.search =
              [IdleRequest EXCEPT !.pc = "await", !.userId = userId,
                                  !.page = page, !.limit = limit, !.c = c]]
  /\ CallSearchNews(c, keyword, limit * 2)
  /\ UNCHANGED <<newsApiKey, gnewsApiKey, now, pn, fa, calls>>
  /\ UNCHANGED <<dataStore, constructed, rg, last, fn>>

\* GET /news/search/:keyword after searchNews has returned.
SearchNewsRespond ==
  /\ rq.search.pc = "await"
  /\ sn[rq.search.c].pc = "done"
  /\ LET articlesReturned == sn[rq.search.c].completion.value
     IN /\ dataStore' = StoreReturned(dataStore, articlesReturned)
        /\ rq' = [rq EXCEPT
                    !.search.pc = "done",
                    !.search.articles = articlesReturned,
                    !.search.response =
                      PageResponse(StoreReturned(dataStore, articlesReturned),
                                   rq.search.userId, articlesReturned,
                                   rq.search.page, rq.search.limit)]
  /\ last' = Operation("storeArticles", rq.search.userId, NoArticleId, TRUE,
                       200, dataStore)
  /\ UNCHANGED <<constructed, rg, fn>>
  /\ UNCHANGED newsVars

(***************************************************************************)
(* Article requests: authenticate, then NewsController.markAsRead,         *)
(* markAsFavorite, removeFavorite or getArticle.  None of them awaits, so  *)
(* each is one step.                                                       *)
(***************************************************************************)
\* A lookup that finds an article under every id.
getArticleAny(d, id) == TRUE

\* dataStore.getArticle(id) is an article (not undefined)
getArticle(d, id) == id \in DOMAIN d.articles

\* authenticate with a valid token for userId: 'Check if user still exists'
authenticate(d, userId) == getUserById(d, userId).found

\* The status of an article request whose Store operation answers done.
ArticleRequestStatus(d, userId, id, done) ==
  IF ~authenticate(d, userId) THEN 401
  ELSE IF ~getArticle(d, id) THEN 404
  ELSE IF ~done.result THEN 404
  ELSE 200

\* The urls under which the response of request shows article id to userId.
ShownUrls(request, userId, id) ==
  IF request.pc = "done" /\ request.response.status = 200
       /\ request.userId = userId
  THEN {request.response.news[k].article.url :
          k \in {j \in 1..Len(request.response.news) :
                   request.response.news[j].article.id = id}}
  ELSE {}

\* An article request of userId for article id: the Store operation runs
\* when the user and the article exist.
ArticleRequest(op, userId, id, done) ==
  LET status == ArticleRequestStatus(dataStore, userId, id, done)
      shown == {<<url, op>> : url \in ShownUrls(rq.news, userId, id)}
  IN /\ dataStore' = IF status = 200 THEN done.dataStore ELSE dataStore
     /\ last' = Operation(op, userId, id, status = 200, status, dataStore)
     /\ rq' = IF status # 200 THEN rq
              ELSE IF op = "removeFavorite"
              THEN [rq EXCEPT !.news.marks =
                      @ \ {<<url, "markAsFavorite">> :
                             url \in ShownUrls(rq.news, userId, id)}]
              ELSE IF op = "getArticle" THEN rq
              ELSE [rq EXCEPT !.news.marks = @ \cup shown]
     /\ UNCHANGED <<constructed, rg, fn>>
     /\ UNCHANGED newsVars

\* The ids of the articles on the pages sent last.
ShownArticleIds ==
  {rq.news.response.news[k].article.id :
     k \in 1..Len(rq.news.response.news)}
    \cup {rq.search.response.news[k].article.id :
            k \in 1..Len(rq.search.response.news)}

\* POST /news/:id/read
MarkAsRead(userId, id) ==
  ArticleRequest("markAsRead", userId, id,
                 markArticleAsRead(dataStore, userId, id))

\* POST /news/:id/favorite
MarkAsFavorite(userId, id) ==
  ArticleRequest("markAsFavorite", userId, id,
                 markArticleAsFavorite(dataStore, userId, id))

\* DELETE /news/:id/favorite
RemoveFavorite(userId, id) ==
  ArticleRequest("removeFavorite", userId, id,
                 removeFavoriteArticle(dataStore, userId, id))

\* GET /news/:id
GetArticle(userId, id) ==
  ArticleRequest("getArticle", userId, id,
                 [dataStore |-> dataStore, result |-> TRUE])

(***************************************************************************)
(* Spec: one getPersonalizedNews call, over every preference list, limit,  *)
(* credential configuration and provider outcome.                          *)
(***************************************************************************)
Next ==
  \/ /\ calls = 0
     /\ \E preferences \in PreferenceLists, limit \in Limits :
          StartNews(preferences, limit)
  \/ \E p \in Providers, o \in Outcomes : FetchResponse(p, o)
  \/ Merge

Spec == Init /\ [][Next]_vars

(***************************************************************************)
(* SpecRepeat: getPersonalizedNews called again and again while the clock  *)
(* runs, so that later calls meet the cache entries of earlier ones, live  *)
(* or expired.                                                             *)
(***************************************************************************)
RepeatPreferences == {<<"general">>, <<"technology", "general">>}

RepeatLimits == {2}

\* A request fails, or delivers an empty or a one-article list; a 2xx body
\* without an articles array is among the outcomes of Spec and SpecFailures.
RepeatOutcomes ==
  {[kind |-> "error", body |-> <<>>]}
    \cup {[kind |-> "ok", body |-> b] :
            b \in {<<>>, <<Raw("t", "a", Iso(1))>>}}

NextRepeat ==
  \/ /\ calls < MaxCalls
     /\ \E preferences \in RepeatPreferences, limit \in RepeatLimits :
          StartNews(preferences, limit)
  \/ \E p \in Providers, o \in RepeatOutcomes : FetchResponse(p, o)
  \/ Merge
  \/ Tick

SpecRepeat == Init /\ [][NextRepeat]_vars

(***************************************************************************)
(* SpecSearch: searchNews calls, possibly overlapping, while the clock     *)
(* runs.  A request fails or delivers articles here; the bodies without    *)
(* articles are among the outcomes of SpecFailures.                        *)
(***************************************************************************)
SearchOutcomes ==
  {[kind |-> k, body |-> <<>>] : k \in {"error", "malformed"}}
    \cup {[kind |-> "ok", body |-> b] :
            b \in { <<Raw("t", "a", Iso(1))>>,
                    <<Raw("t", "a", Iso(2)), Raw("", "b", Iso(1)),
                      Raw("t", "c", Iso(3))>> }}

NextSearch ==
  \/ \E c \in SearchCalls, keyword \in Keywords, pageSize \in PageSizes :
       StartSearch(c, keyword, pageSize)
  \/ \E c \in SearchCalls, o \in SearchOutcomes : SearchNewsAPIResponse(c, o)
  \/ \E c \in SearchCalls, o \in SearchOutcomes : SearchGNewsResponse(c, o)
  \/ Tick

SpecSearch == Init /\ [][NextSearch]_vars

(***************************************************************************)
(* SpecFailures: one getPersonalizedNews call and one searchNews call,     *)
(* every external request of which may fail in each of the ways a request  *)
(* can fail.                                                               *)
(***************************************************************************)
FailurePreferences == {<<"general">>, <<"technology", "general">>}

FailureLimits == {2}

FailureOutcomes ==
  {[kind |-> k, body |-> <<>>] : k \in {"error", "nodata", "malformed"}}
    \cup {[kind |-> "ok", body |-> <<Raw("t", "a", Iso(1))>>]}

NextFailures ==
  \/ /\ calls = 0
     /\ \E preferences \in FailurePreferences, limit \in FailureLimits :
          StartNews(preferences, limit)
  \/ \E p \in Providers, o \in FailureOutcomes : FetchResponse(p, o)
  \/ Merge
  \/ \E keyword \in Keywords, pageSize \in PageSizes :
       StartSearch(1, keyword, pageSize)
  \/ \E o \in FailureOutcomes : SearchNewsAPIResponse(1, o)
  \/ \E o \in FailureOutcomes : SearchGNewsResponse(1, o)

SpecFailures == Init /\ [][NextFailures]_vars

(***************************************************************************)
(* SpecHandlers: signups, one GET /news and one GET /news/search request,  *)
(* and GET /news/:id requests for the articles on their pages, one request *)
(* at a time.                                                              *)
(***************************************************************************)
HandlerSignups ==
  [email : {"a@x.io"}, password : {"Passw0rd!"},
   preferences : {<<>>, <<"technology">>}]

\* The signup request of this specification.
HandlerRegistrations == {1}

\* The user ids of the requests: the user the signup creates, and one that
\* is never created.
HandlerUserIds == {1, 2}

HandlerPages == {1, 2}

HandlerLimits == {1, 2}

HandlerCategories == {"", "technology"}

HandlerOutcomes ==
  {[kind |-> "error", body |-> <<>>]}
    \cup {[kind |-> "ok", body |-> b] :
            b \in { <<Raw("t", "a", Iso(1))>>,
                    <<Raw("t", "b", Iso(2)), Raw("t", "c", Iso(3))>> }}

\* No request is waiting for a password hash or for the news service.
Quiet ==
  /\ \A r \in HandlerRegistrations : rg[r].pc # "hashing"
  /\ rq.news.pc # "await"
  /\ rq.search.pc # "await"

NextHandlers ==
  \/ /\ Quiet
     /\ \E r \in HandlerRegistrations, body \in HandlerSignups :
          Register(r, body)
  \/ \E r \in HandlerRegistrations, hashed \in BOOLEAN :
       RegisterHashed(r, hashed)
  \/ /\ Quiet
     /\ rq.news.pc = "idle"
     /\ \E userId \in HandlerUserIds, page \in HandlerPages,
           limit \in HandlerLimits, category \in HandlerCategories :
          GetNews(userId, page, limit, category)
  \/ \E p \in Providers, o \in HandlerOutcomes : FetchResponse(p, o)
  \/ Merge
  \/ GetNewsRespond
  \/ /\ Quiet
     /\ rq.search.pc = "idle"
     /\ \E userId \in HandlerUserIds, keyword \in Keywords,
           page \in HandlerPages, limit \in HandlerLimits :
          SearchNews(1, userId, keyword, page, limit)
  \/ \E o \in HandlerOutcomes : SearchNewsAPIResponse(1, o)
  \/ \E o \in HandlerOutcomes : SearchGNewsResponse(1, o)
  \/ SearchNewsRespond
  \/ /\ Quiet
     /\ \E userId \in HandlerUserIds,
           id \in ShownArticleIds \cup {NoArticleId} :
          GetArticle(userId, id)

SpecHandlers == Init /\ [][NextHandlers]_vars

(***************************************************************************)
(* SpecMock: getMockArticles called by itself, again and again, while the  *)
(* clock runs.                                                             *)
(***************************************************************************)
\* this.getMockArticles(categories), application fn.n + 1 of the behaviour
GetMockArticles(categories) ==
  /\ fn.n < MaxApplications
  /\ fn' = [op |-> "getMockArticles", n |-> fn.n + 1, input |-> categories,
            output |-> getMockArticles(categories, now, fn.n + 1),
            prevInput |-> fn.input, prevOutput |-> fn.output]
  /\ UNCHANGED <<dataStore, constructed, rg, last, rq>>
  /\ UNCHANGED newsVars

NextMock ==
  \/ \E categories \in PreferenceLists : GetMockArticles(categories)
  \/ Tick

SpecMock == Init /\ [][NextMock]_vars

(***************************************************************************)
(* SpecDedup: removeDuplicates applied to every list of at most            *)
(* MaxDedupLen articles whose urls are empty (or absent), 'a' or 'b'.      *)
(***************************************************************************)
DedupUrls == {"", "a", "b"}

\* The lists handed to removeDuplicates: article k of a list is the k-th
\* construction, published at k.
DedupInputs ==
  UNION {{[k \in 1..n |->
             Article(generateId(Seed("news", "newsapi", 1, 1), k), urls[k],
                     Iso(k), "general")] : urls \in [1..n -> DedupUrls]}
           : n \in 0..MaxDedupLen}

\* this.removeDuplicates(articles)
RemoveDuplicates(articles) ==
  /\ fn' = [op |-> "removeDuplicates", n |-> 1, input |-> articles,
            output |-> removeDuplicates(articles),
            prevInput |-> <<>>, prevOutput |-> <<>>]
  /\ UNCHANGED <<dataStore, constructed, rg, last, rq>>
  /\ UNCHANGED newsVars

NextDedup == \E articles \in DedupInputs : RemoveDuplicates(articles)

SpecDedup == Init /\ [][NextDedup]_vars

(***************************************************************************)
(* SpecIds: articles constructed with ids drawn by Math.random, and put    *)
(* into the Store.  The other specifications take every drawn id for new;  *)
(* here a draw may return what an earlier draw returned.                   *)
(***************************************************************************)
\* The values Math.random() returns in a behaviour.
RandomValues == {"x", "y", "z"}

\* '_' + Math.random().toString(36).substring(2, 11), Math.random() = x
generateIdFrom(x) == <<"random", "none", 0, 0, x>>

ConstructedUrls == {"a", "b"}

\* new Article({ url, ... }) while Math.random() returns x: construction
\* fn.n + 1 of the behaviour, created at that moment.  fn.output lists the
\* articles constructed so far.
NewArticle(x, url) ==
  /\ fn.n < MaxConstructions
  /\ fn' = [op |-> "Article", n |-> fn.n + 1, input |-> <<x, url>>,
            output |-> Append(fn.output,
                              Article(generateIdFrom(x), url, Iso(fn.n + 1),
                                      "general")),
            prevInput |-> fn.input, prevOutput |-> fn.output]
  /\ UNCHANGED <<dataStore, constructed, rg, last, rq>>
  /\ UNCHANGED newsVars

NextIds ==
  \/ \E x \in RandomValues, url \in ConstructedUrls : NewArticle(x, url)
  \/ \E k \in 1..Len(fn.output) : StoreArticle(fn.output[k])

SpecIds == Init /\ [][NextIds]_vars

(***************************************************************************)
(* SpecReaders: two users sign up, one GET /news request is answered, and  *)
(* the users read, mark and unmark the article on its page, or an article  *)
(* nobody was shown.                                                       *)
(***************************************************************************)
ReaderSignups ==
  [email : {"a@x.io", "b@x.io"}, password : {"Passw0rd!"},
   preferences : {<<>>}]

ReaderRegistrations == {1, 2}

\* The user ids of the requests: the users the signups create, and one that
\* is never created.
ReaderUserIds == {1, 2, 3}

ReaderLimits == {1}

ReaderOutcomes ==
  {[kind |-> "error", body |-> <<>>],
   [kind |-> "ok", body |-> <<Raw("t", "a", Iso(1))>>]}

\* The article ids a client sends: the ids of the articles on the pages
\* sent last, and an id of no article.
ReaderArticleIds == ShownArticleIds \cup {NoArticleId}

NextReaders ==
  \/ /\ Quiet
     /\ \E r \in ReaderRegistrations, body \in ReaderSignups :
          Register(r, body)
  \/ \E r \in ReaderRegistrations : RegisterHashed(r, TRUE)
  \/ /\ Quiet
     /\ rq.news.pc = "idle"
     /\ \E userId \in ReaderUserIds, limit \in ReaderLimits :
          GetNews(userId, 1, limit, "")
  \/ \E p \in Providers, o \in ReaderOutcomes : FetchResponse(p, o)
  \/ Merge
  \/ GetNewsRespond
  \/ /\ Quiet
     /\ \E userId \in ReaderUserIds, id \in ReaderArticleIds :
          \/ MarkAsRead(userId, id)
          \/ MarkAsFavorite(userId, id)
          \/ RemoveFavorite(userId, id)
          \/ GetArticle(userId, id)

SpecReaders == Init /\ [][NextReaders]_vars

(***************************************************************************)
(* SpecRevisit: one user signs up, asks for the news again and again (one  *)
(* request at a time, page 1, the clock standing still) and marks and      *)
(* unmarks the article on the page sent last.                              *)
(***************************************************************************)
RevisitRegistrations == {1}

RevisitSignups ==
  [email : {"a@x.io"}, password : {"Passw0rd!"}, preferences : {<<>>}]

RevisitUserIds == {1}

NextRevisit ==
  \/ /\ Quiet
     /\ \E r \in RevisitRegistrations, body \in RevisitSignups :
          Register(r, body)
  \/ \E r \in RevisitRegistrations : RegisterHashed(r, TRUE)
  \/ /\ Quiet
     /\ calls < MaxCalls
     /\ \E userId \in RevisitUserIds, limit \in ReaderLimits :
          GetNews(userId, 1, limit, "")
  \/ \E p \in Providers, o \in ReaderOutcomes : FetchResponse(p, o)
  \/ Merge
  \/ GetNewsRespond
  \/ /\ Quiet
     /\ \E userId \in RevisitUserIds, id \in ReaderArticleIds :
          \/ MarkAsRead(userId, id)
          \/ MarkAsFavorite(userId, id)
          \/ RemoveFavorite(userId, id)

SpecRevisit == Init /\ [][NextRevisit]_vars

(***************************************************************************)
(* SpecUsers: signup requests, possibly overlapping, and preference        *)
(* updates.                                                                *)
(***************************************************************************)
InitStore == Init /\ newsApiKey /\ gnewsApiKey

NextUsers ==
  \/ \E r \in Registrations, body \in SignupBodies : Register(r, body)
  \/ \E r \in Registrations, hashed \in BOOLEAN : RegisterHashed(r, hashed)
  \/ \E userId \in Registrations, preferences \in UpdatePreferenceLists :
       UpdatePreferences(userId, preferences)

SpecUsers == InitStore /\ [][NextUsers]_vars

(***************************************************************************)
(* SpecStore: the operations of the Store in any order, on users that      *)
(* exist and on ids that match no user.                                    *)
(***************************************************************************)
NextStore ==
  \/ \E email \in StoreEmails : CreateUser(email)
  \/ \E article \in StoreSamples : StoreArticle(article)
  \/ \E userId \in UserIds, articleId \in ArticleIds :
       MarkArticleAsRead(userId, articleId)
  \/ \E userId \in UserIds, articleId \in ArticleIds :
       MarkArticleAsFavorite(userId, articleId)
  \/ \E userId \in UserIds, articleId \in ArticleIds :
       RemoveFavoriteArticle(userId, articleId)

SpecStore == InitStore /\ [][NextStore]_vars

(***************************************************************************)
(* Properties.                                                             *)
(***************************************************************************)
Min(a, b) == IF a < b THEN a ELSE b

NoDuplicateUrls(list) ==
  \A i, j \in 1..Len(list) :
    (i # j /\ list[i].url # "") => list[i].url # list[j].url

\* What the two adapters handed to the aggregation of the current call.
Fetched == fa["newsapi"].completion.value \o fa["gnews"].completion.value

NewsReturned == pn.pc = "done" /\ pn.completion.kind = "return"

\* Adapter p gave up on a failed request (i stays at the failing category).
AdapterFailed(p) ==
  /\ fa[p].pc = "done"
  /\ Configured(p)
  /\ fa[p].i \in 1..Len(pn.preferences)

\* The urls of the five synthetic articles, in the order they are generated.
SyntheticUrls ==
  <<"tech-news-1", "business-news-1", "sports-news-1", "health-news-1",
    "entertainment-news-1">>

SyntheticCount(preferences) == IF Includes(preferences, "general") THEN 5 ELSE 3

\* list is the first n synthetic articles, tagged tag, newest first.
IsSyntheticPrefix(list, n, tag) ==
  /\ Len(list) = n
  /\ \A i \in 1..Len(list) :
       /\ list[i].url = SyntheticUrls[i]
       /\ list[i].category = tag
       /\ list[i].publishedAt = MkDate(now + 1 - i)

\* C1: the list getPersonalizedNews returns never holds two articles with the
\* same non-empty url.
C1_PersonalizedNoDuplicateUrls ==
  pn.pc = "done" => NoDuplicateUrls(pn.completion.value)

\* C1 witness: both providers delivered an article with the same url and the
\* call has returned.
C1_Witness ==
  /\ NewsReturned
  /\ \E i \in 1..Len(fa["newsapi"].completion.value),
        j \in 1..Len(fa["gnews"].completion.value) :
       fa["newsapi"].completion.value[i].url = fa["gnews"].completion.value[j].url

\* C2: the list searchNews returns holds every url at most once.
C2_SearchNoDuplicateUrls ==
  \A c \in SearchCalls :
    sn[c].pc = "done" => NoDuplicateUrls(sn[c].completion.value)

\* C3: an adapter that has returned hands back every article it had
\* accumulated from the categories whose request did not fail, whether or not
\* the request of another category failed.
C3_FailureDropsOnlyItsCategory ==
  \A p \in Providers :
    fa[p].pc = "done" => fa[p].completion.value = fa[p].articles

\* C4: in the list getPersonalizedNews returns, an entry never precedes an
\* entry with a later published timestamp.
C4_PersonalizedNewestFirst ==
  pn.pc = "done" =>
    \A i, j \in 1..Len(pn.completion.value) :
      (/\ i < j
       /\ pn.completion.value[i].publishedAt.valid
       /\ pn.completion.value[j].publishedAt.valid)
        => pn.completion.value[i].publishedAt.time
             >= pn.completion.value[j].publishedAt.time

\* C5: getPersonalizedNews always completes by returning a list, never by
\* throwing; when the adapters end up with no article at all (every request
\* failed, no credential, empty or malformed bodies) the list is the synthetic
\* fallback, truncated to limit.
C5_PersonalizedNeverThrows ==
  pn.pc = "done" =>
    /\ pn.completion.kind = "return"
    /\ Fetched = <<>> =>
         IsSyntheticPrefix(pn.completion.value,
                           Min(pn.limit, SyntheticCount(pn.preferences)),
                           IF pn.preferences # <<>> THEN pn.preferences[1]
                           ELSE "general")

\* C5 witness: both providers are configured, a request of each failed, and
\* the call returned a non-empty list.
C5_Witness ==
  /\ NewsReturned
  /\ \A p \in Providers : AdapterFailed(p)
  /\ pn.completion.value # <<>>

\* C6 as stated: with no credential configured the returned list is never
\* shorter than the synthetic fallback set, whatever the limit.
C6_AtLeastFallbackCount ==
  (pn.pc = "done" /\ ~newsApiKey /\ ~gnewsApiKey) =>
    Len(pn.completion.value) >= SyntheticCount(pn.preferences)

\* C6 amended: with no credential configured the returned list has exactly
\* min(limit, size of the synthetic fallback set) entries, so it is as long
\* as the fallback set exactly when limit is at least that size.
C6_FallbackCountUpToLimit ==
  (pn.pc = "done" /\ ~newsApiKey /\ ~gnewsApiKey) =>
    Len(pn.completion.value) = Min(pn.limit, SyntheticCount(pn.preferences))

\* C6 witness: no credential, a limit below the size of the fallback set.
C6_Witness ==
  /\ NewsReturned
  /\ ~newsApiKey /\ ~gnewsApiKey
  /\ pn.limit < SyntheticCount(pn.preferences)
  /\ Len(pn.completion.value) = pn.limit

\* C7: when no provider yields an article, the preferences include 'general'
\* and limit >= 5, the result is exactly the five synthetic articles.
C7_GeneralGetsFiveSynthetic ==
  (/\ pn.pc = "done"
   /\ Fetched = <<>>
   /\ Includes(pn.preferences, "general")
   /\ pn.limit >= 5)
    => /\ Len(pn.completion.value) = 5
       /\ \A i \in 1..5 : pn.completion.value[i].url = SyntheticUrls[i]

\* C7 witness: a configured provider answered with no usable article, the
\* preferences include 'general', limit >= 5, and the call returned.
C7_Witness ==
  /\ NewsReturned
  /\ newsApiKey
  /\ Fetched = <<>>
  /\ Includes(pn.preferences, "general")
  /\ pn.limit >= 5
  /\ Len(pn.completion.value) = 5

\* C8: when every provider yields zero articles, the preference list is not
\* empty and does not include 'general', and limit >= 3, the result is exactly
\* the first three synthetic articles, each tagged with the first category of
\* the list.
C8_SpecificGetsThreeTagged ==
  (/\ pn.pc = "done"
   /\ Fetched = <<>>
   /\ pn.preferences # <<>>
   /\ ~Includes(pn.preferences, "general")
   /\ pn.limit >= 3)
    => /\ Len(pn.completion.value) = 3
       /\ \A i \in 1..3 :
            /\ pn.completion.value[i].url = SyntheticUrls[i]
            /\ pn.completion.value[i].category = pn.preferences[1]

\* C8 witness: preferences ['technology'], both providers configured and
\* empty-handed, limit >= 3, three articles tagged 'technology' returned.
C8_Witness ==
  /\ NewsReturned
  /\ newsApiKey /\ gnewsApiKey
  /\ Fetched = <<>>
  /\ pn.preferences = <<"technology">>
  /\ pn.limit >= 3
  /\ Len(pn.completion.value) = 3
  /\ pn.completion.value[1].category = "technology"

\* The TTL has not elapsed at time t since a value was last stored under key.
StoredWithinTTL(h, key, t) == key \in DOMAIN h /\ t <= h[key].at + StdTTL

\* C9: when a searchNews call is made after a call with the same keyword,
\* language and page size has returned, and before the TTL has elapsed since
\* that return, the two calls together issue at most one external request per
\* provider; when the first call made the requests itself, the second call is
\* served from the cache, with the list an earlier identical call returned.
C9_RepeatSearchWithinTTL ==
  \A second \in SearchCalls :
    \A first \in sn[second].after :
      sn[second].startedAt <= sn[first].returnedAt + StdTTL =>
        /\ \A p \in Providers :
             sn[first].requests[p] + sn[second].requests[p] <= 1
        /\ ~sn[first].fromCache =>
             /\ sn[second].fromCache
             /\ \A p \in Providers : sn[second].requests[p] = 0
             /\ \E d \in sn[second].after :
                  sn[second].completion.value = sn[d].completion.value

\* C9 witness: the first call asked both providers, the second call, made an
\* hour after the first returned, came back from the cache.
C9_Witness ==
  \E second \in SearchCalls :
    \E first \in sn[second].after :
      /\ sn[second].pc = "done"
      /\ sn[second].fromCache
      /\ sn[second].startedAt > sn[first].returnedAt
      /\ \A p \in Providers : sn[first].requests[p] = 1

\* Adapter p issues an external request in this step.
IssuesRequest(p) ==
  IF calls' # calls THEN fa'[p].requests = 1
  ELSE fa'[p].requests > fa[p].requests

\* C10: an adapter issues a request for (category, language, pageSize) only
\* when no response was stored for that tuple within the last TTL; a call
\* whose first category has a response stored within the TTL takes the stored
\* articles and issues no request for it, and a call whose first category has
\* none, or one whose TTL has elapsed, issues a new request for it.
C10_CategoryCacheUntilTTL ==
  [][\A p \in Providers :
       /\ IssuesRequest(p) =>
            ~StoredWithinTTL(stored',
                             NewsKey(p, pn'.preferences[fa'[p].i],
                                     HalfCeil(pn'.limit)), now')
       /\ (calls' # calls /\ Configured(p) /\ pn'.preferences # <<>>) =>
            LET key == NewsKey(p, pn'.preferences[1], HalfCeil(pn'.limit))
            IN IF StoredWithinTTL(stored, key, now)
               THEN /\ fa'[p].i > 1
                    /\ Len(fa'[p].articles) >= Len(stored[key].v)
                    /\ SubSeq(fa'[p].articles, 1, Len(stored[key].v))
                         = stored[key].v
               ELSE /\ fa'[p].pc = "await"
                    /\ fa'[p].i = 1
                    /\ fa'[p].requests = 1]_vars

\* C10 witness: in one call, the NewsAPI adapter returned articles stored
\* within the TTL without issuing a request, while the GNews adapter has
\* issued a new request for a tuple whose stored response has expired.
C10_Witness ==
  /\ fa["newsapi"].pc = "done"
  /\ newsApiKey
  /\ fa["newsapi"].requests = 0
  /\ fa["newsapi"].completion.value # <<>>
  /\ fa["gnews"].pc = "await"
  /\ LET key == NewsKey("gnews", pn.preferences[fa["gnews"].i], HalfCeil(pn.limit))
     IN key \in DOMAIN stored /\ now > stored[key].at + StdTTL

\* C15: the list getPersonalizedNews returns never has more than limit
\* entries, whatever the providers delivered and whether or not the fallback
\* was used.
C15_AtMostLimit ==
  pn.pc = "done" => Len(pn.completion.value) <= pn.limit

\* C15 witness: the providers delivered more distinct articles than limit and
\* the call returned limit of them.
C15_Witness ==
  /\ NewsReturned
  /\ Len(removeDuplicates(Fetched)) > pn.limit
  /\ Len(pn.completion.value) = pn.limit

\* C16: in the response of GET /news and of GET /news/search, for every page
\* and limit, pagination.total is the number of articles in the list the
\* service returned, before the page is cut out of it.
C16_TotalCountsFullList ==
  /\ (rq.news.pc = "done" /\ rq.news.response.status = 200) =>
       rq.news.response.pagination.total = Len(rq.news.articles)
  /\ (rq.search.pc = "done" /\ rq.search.response.status = 200) =>
       rq.search.response.pagination.total = Len(rq.search.articles)

\* C16 witness: both handlers have answered with a page that is not empty and
\* holds fewer articles than the list it was cut from.
C16_Witness ==
  /\ rq.news.pc = "done"
  /\ rq.news.response.status = 200
  /\ rq.news.response.news # <<>>
  /\ Len(rq.news.response.news) < Len(rq.news.articles)
  /\ rq.search.pc = "done"
  /\ rq.search.response.status = 200
  /\ rq.search.response.news # <<>>
  /\ Len(rq.search.response.news) < Len(rq.search.articles)

\* The first category of the call that starts in this step is not served
\* from the cache for adapter p.
MissesFirst(p) ==
  /\ Configured(p)
  /\ pn'.preferences # <<>>
  /\ ~IsCacheHit(CacheGet(cache, NewsKey(p, pn'.preferences[1],
                                         HalfCeil(pn'.limit)), now))

\* C17: the step that calls getPersonalizedNews starts both adapters, so an
\* adapter that has to ask its provider has its request outstanding at the
\* end of that step, whatever the other adapter does (both outstanding at the
\* same time when both have to ask); and the merge happens only in a state
\* where both adapters have settled.
C17_BothOutstandingThenJoin ==
  [][/\ calls' # calls =>
          \A p \in Providers :
            MissesFirst(p) => (fa'[p].pc = "await" /\ fa'[p].requests = 1)
     /\ (pn.pc = "fetching" /\ pn'.pc = "done") =>
          \A p \in Providers : fa[p].pc = "done" /\ fa'[p] = fa[p]]_vars

\* C17 witness: the requests of both adapters are outstanding at once.
C17_Witness ==
  /\ pn.pc = "fetching"
  /\ \A p \in Providers : fa[p].pc = "await" /\ pn.responses[p] = <<>>

\* Adapter p run on its own from state f against the responses it received,
\* in order, with cache c.
RECURSIVE RunAdapter(_, _, _, _, _, _, _, _)
RunAdapter(p, f, categories, pageSize, responses, c, t, call) ==
  IF f.pc # "await" \/ responses = <<>> THEN [f |-> f, c |-> c]
  ELSE RunAdapter(p,
                  ResumeFetch(p, f, categories, pageSize, Head(responses), c, t,
                              call),
                  categories, pageSize, Tail(responses),
                  CacheAfterResponse(p, f, categories, pageSize, Head(responses),
                                     c, t, call),
                  t, call)

\* What the call returns when the NewsAPI adapter runs to its end before the
\* GNews adapter starts, each against the responses it received (the call
\* started with an empty cache).
SequentialResult ==
  LET pageSize == HalfCeil(pn.limit)
      a == RunAdapter("newsapi",
                      StartFetch("newsapi", pn.preferences, pageSize, <<>>, now),
                      pn.preferences, pageSize, pn.responses["newsapi"], <<>>,
                      now, calls)
      b == RunAdapter("gnews",
                      StartFetch("gnews", pn.preferences, pageSize, a.c, now),
                      pn.preferences, pageSize, pn.responses["gnews"], a.c,
                      now, calls)
  IN PersonalizedCatch(
       PersonalizedTry(pn.preferences, pn.limit, a.f.completion, b.f.completion,
                       now, calls),
       pn.preferences, pn.limit, now, calls)

\* C18: whatever the order in which the responses of the two providers
\* arrived, the call returns what it returns when NewsAPI is fetched to the
\* end before GNews; and a returned article whose url NewsAPI delivered is
\* the copy NewsAPI delivered, also when GNews delivered that url too.
C18_OrderIndependentNewsAPIFirst ==
  pn.pc = "done" =>
    /\ pn.completion = SequentialResult
    /\ \A k \in 1..Len(pn.completion.value) :
         (\E i \in 1..Len(fa["newsapi"].completion.value) :
            fa["newsapi"].completion.value[i].url = pn.completion.value[k].url)
           => \E i \in 1..Len(fa["newsapi"].completion.value) :
                fa["newsapi"].completion.value[i] = pn.completion.value[k]

\* C18 witness: both providers delivered url 'a', the GNews response arrived
\* first, and the call returned.
C18_Witness ==
  /\ NewsReturned
  /\ \E i \in 1..Len(fa["newsapi"].completion.value),
        j \in 1..Len(fa["gnews"].completion.value) :
       /\ fa["newsapi"].completion.value[i].url = "a"
       /\ fa["gnews"].completion.value[j].url = "a"
  /\ \E k \in 1..Len(pn.completion.value) : pn.completion.value[k].url = "a"
  /\ pn.first = "gnews"
  /\ pn.responses["newsapi"] # <<>>

\* The number of articles provider p has supplied to searchNews call c.
SuppliedBy(c, p) ==
  Cardinality({k \in 1..Len(sn[c].articles) : sn[c].articles[k].id[2] = p})

\* C19: a searchNews call never returns more than pageSize articles; it asks
\* GNews only when NewsAPI supplied fewer than pageSize articles, and then
\* for the remaining count.
C19_SearchAtMostPageSize ==
  \A c \in SearchCalls :
    /\ sn[c].pc = "done" => Len(sn[c].completion.value) <= sn[c].pageSize
    /\ sn[c].requests["gnews"] = 1 =>
         /\ SuppliedBy(c, "newsapi") < sn[c].pageSize
         /\ sn[c].asked["gnews"] = sn[c].pageSize - SuppliedBy(c, "newsapi")

\* C20: fetchFromNewsAPI, fetchFromGNews and searchNews never complete by
\* throwing: whenever one of them has completed, it has returned a list.
C20_NoProviderFailureEscapes ==
  /\ \A p \in Providers :
       /\ fa[p].completion.kind # "throw"
       /\ fa[p].pc = "done" => fa[p].completion.kind = "return"
  /\ \A c \in SearchCalls :
       /\ sn[c].completion.kind # "throw"
       /\ sn[c].pc = "done" => sn[c].completion.kind = "return"

\* C20 witness: a request of each adapter failed and both adapters returned,
\* and both requests of a searchNews call failed and the call returned.
C20_Witness ==
  /\ \A p \in Providers :
       AdapterFailed(p) /\ fa[p].completion.kind = "return"
  /\ \E c \in SearchCalls :
       /\ sn[c].pc = "done"
       /\ sn[c].failures = 2
       /\ sn[c].completion.kind = "return"

\* The preference list of every user in the Store has at most ten entries,
\* no entry twice, and only entries of the category vocabulary.
PreferencesWellFormed(d) ==
  \A e \in DOMAIN d.users :
    LET preferences == d.users[e].preferences
    IN /\ Len(preferences) <= MaxPreferences
       /\ \A i, j \in 1..Len(preferences) :
            i # j => preferences[i] # preferences[j]
       /\ \A i \in 1..Len(preferences) : preferences[i] \in defaultCategories

\* C11: at most one signup request per email is answered with 200, and the
\* user a request created is still the user stored under its email.
C11_OneRegistrationPerEmail ==
  /\ \A r1, r2 \in Registrations :
       (r1 # r2 /\ rg[r1].status = 200 /\ rg[r2].status = 200)
         => rg[r1].email # rg[r2].email
  /\ \A r \in Registrations :
       rg[r].status = 200 =>
         /\ userExists(dataStore, rg[r].email)
         /\ dataStore.users[rg[r].email].id = rg[r].userId

\* C12: in every state reached through signups and preference updates, every
\* user in the Store has a preference list with at most ten entries, no
\* duplicates, and only entries of the category vocabulary.
C12_StoredPreferencesWellFormed == PreferencesWellFormed(dataStore)

\* No user of the Store d has the id.
NoUserHasId(d, id) == \A e \in DOMAIN d.users : d.users[e].id # id

MarkOperations ==
  {"markArticleAsRead", "markArticleAsFavorite", "removeFavoriteArticle"}

\* C13: markArticleAsRead, markArticleAsFavorite and removeFavoriteArticle
\* called with a user id that matches no user return false and leave the
\* users (their read and favorite sets) and the article map as they were.
C13_UnknownUserChangesNothing ==
  (/\ last.op \in MarkOperations
   /\ NoUserHasId(last.before, last.userId))
    => /\ ~last.result
       /\ dataStore = last.before

\* C13 witness: the Store holds an article and a user with a favorite, and
\* the last operation was a removeFavoriteArticle of that favorite under a
\* user id that matches no user.
C13_Witness ==
  /\ last.op = "removeFavoriteArticle"
  /\ NoUserHasId(last.before, last.userId)
  /\ DOMAIN dataStore.articles # {}
  /\ \E e \in DOMAIN dataStore.users :
       last.articleId \in dataStore.users[e].favoriteArticles

\* C14: for an existing user, removing a favorite that is not in the user's
\* favorite set returns true and leaves the favorite and read sets (the whole
\* Store) as they were; and removing a favorite twice leaves the Store as
\* removing it once does.
C14_RemoveAbsentFavoriteIsNoOp ==
  /\ (/\ last.op = "removeFavoriteArticle"
      /\ getUserById(last.before, last.userId).found
      /\ last.articleId \notin
           last.before.users[getUserById(last.before, last.userId).email]
             .favoriteArticles)
       => /\ last.result
          /\ dataStore = last.before
  /\ \A userId \in UserIds, articleId \in ArticleIds :
       LET once == removeFavoriteArticle(dataStore, userId, articleId)
       IN removeFavoriteArticle(once.dataStore, userId, articleId) = once

\* C14 witness: a user with one favorite and one read article has just been
\* asked to remove another article from the favorites.
C14_Witness ==
  /\ last.op = "removeFavoriteArticle"
  /\ last.result
  /\ LET user == getUserById(dataStore, last.userId)
     IN /\ user.found
        /\ dataStore.users[user.email].favoriteArticles # {}
        /\ dataStore.users[user.email].readArticles # {}
        /\ last.articleId \notin last.before.users[user.email].favoriteArticles

\* The articles of list s as a set.
Range(s) == {s[k] : k \in 1..Len(s)}

\* C22: two applications of getMockArticles to the same category list return
\* the same list, in every field of every article (id, url, category,
\* published timestamp), whatever happened between them.
C22_MockIsDeterministic ==
  (fn.op = "getMockArticles" /\ fn.n >= 2 /\ fn.input = fn.prevInput)
    => fn.output = fn.prevOutput

\* C23: removeDuplicates keeps every article whose url is empty or absent,
\* and removes an article only when an earlier article of the list has the
\* same, non-empty url.
C23_EmptyUrlsAreKept ==
  fn.op = "removeDuplicates" =>
    /\ \A k \in 1..Len(fn.input) :
         fn.input[k].url = "" => fn.input[k] \in Range(fn.output)
    /\ \A k \in 1..Len(fn.input) :
         fn.input[k] \notin Range(fn.output) =>
           /\ fn.input[k].url # ""
           /\ \E i \in 1..(k - 1) : fn.input[i].url = fn.input[k].url

\* C24: any two articles constructed in the life of the process have
\* different ids, and storing a constructed article leaves every article
\* the Store already held under its id as it was.
C24_ArticleIdsAreUnique ==
  /\ fn.op = "Article" =>
       \A i, j \in 1..Len(fn.output) :
         i # j => fn.output[i].id # fn.output[j].id
  /\ last.op = "storeArticle" =>
       \A id \in DOMAIN last.before.articles :
         dataStore.articles[id] = last.before.articles[id]

\* The articles on the page a request was answered with.
ArticlesSent(request) ==
  IF request.pc = "done" /\ request.response.status = 200
  THEN {request.response.news[k].article :
          k \in 1..Len(request.response.news)}
  ELSE {}

\* C21: once getNews or searchNews has sent a successful response, every
\* article of that response is in the Store under its id, and a GET /news/:id
\* request that follows for such an id (by a user who exists) finds the
\* article.
C21_ReturnedArticlesAreStored ==
  \A request \in {rq.news, rq.search} :
    \A a \in ArticlesSent(request) :
      /\ a.id \in DOMAIN dataStore.articles
      /\ dataStore.articles[a.id] = a
      /\ (last.op = "getArticle" /\ last.articleId = a.id
            /\ last.status # 401) => last.status = 200

\* C21 witness: both handlers have sent a page with an article, and a
\* GET /news/:id for the article of the search page was answered 200.
C21_Witness ==
  /\ ArticlesSent(rq.news) # {}
  /\ \E a \in ArticlesSent(rq.search) :
       /\ last.op = "getArticle"
       /\ last.articleId = a.id
       /\ last.status = 200

MarkRequests == {"markAsRead", "markAsFavorite", "removeFavorite"}

\* The flags the handlers show the user stored under email e for an article.
FlagsShown(d, e, article) ==
  LET shown == Enrich(d, [found |-> TRUE, email |-> e], article)
  IN <<shown.isRead, shown.isFavorite>>

\* C25: a mark-read, mark-favorite or remove-favorite request of one user
\* leaves the isRead and isFavorite flags of every other user, for every
\* article, as they were.
C25_MarksOfOneUserOnly ==
  [][last'.op \in MarkRequests =>
       \A e \in DOMAIN dataStore.users :
         dataStore.users[e].id # last'.userId =>
           /\ e \in DOMAIN dataStore'.users
           /\ \A id \in DOMAIN dataStore.articles :
                FlagsShown(dataStore', e, dataStore.articles[id])
                  = FlagsShown(dataStore, e, dataStore.articles[id])]_vars

\* C25 witness: two users are in the Store, one of them has just marked an
\* article as read, and the two see different flags for it.
C25_Witness ==
  /\ last.op = "markAsRead"
  /\ last.status = 200
  /\ \E e1, e2 \in DOMAIN dataStore.users :
       /\ dataStore.users[e1].id = last.userId
       /\ dataStore.users[e2].id # last.userId
       /\ FlagsShown(dataStore, e1, dataStore.articles[last.articleId])
            = <<TRUE, FALSE>>
       /\ FlagsShown(dataStore, e2, dataStore.articles[last.articleId])
            = <<FALSE, TRUE>>

\* C26: when a user has marked an article of a GET /news page as read (as
\* favorite) and then asks again with the same preferences, limit and page
\* before the cache TTL has elapsed, every article of the new page with the
\* url of a marked article is shown with isRead (isFavorite) true.
C26_MarksSurviveARepeatedRequest ==
  (/\ rq.news.pc = "done"
   /\ rq.news.response.status = 200
   /\ rq.news.earlier.userId = rq.news.userId
   /\ rq.news.earlier.preferences = rq.news.preferences
   /\ rq.news.earlier.limit = rq.news.limit
   /\ rq.news.earlier.page = rq.news.page)
    => \A k \in 1..Len(rq.news.response.news) :
         LET shown == rq.news.response.news[k]
         IN /\ <<shown.article.url, "markAsRead">> \in rq.news.earlier.marks
                 => shown.isRead
            /\ <<shown.article.url, "markAsFavorite">> \in rq.news.earlier.marks
                 => shown.isFavorite

\* C27: every id in the read set or the favorite set of a user is the id of
\* an article in the Store.
C27_MarkedArticlesAreStored ==
  \A e \in DOMAIN dataStore.users :
    dataStore.users[e].readArticles \cup dataStore.users[e].favoriteArticles
      \subseteq DOMAIN dataStore.articles

\* C27 witness: a user has read and favorite marks, and a mark request for
\* an id of no article has just been answered 404.
C27_Witness ==
  /\ last.op \in {"markAsRead", "markAsFavorite"}
  /\ last.articleId \notin DOMAIN dataStore.articles
  /\ last.status = 404
  /\ \E e \in DOMAIN dataStore.users :
       /\ dataStore.users[e].readArticles # {}
       /\ dataStore.users[e].favoriteArticles # {}

(***************************************************************************)
(* SpecOverlap: searchNews calls with one keyword and one page size, which *)
(* may overlap; a provider request is rejected or delivers one article.    *)
(***************************************************************************)
OverlapPageSizes == {1}

OverlapOutcomes ==
  {[kind |-> "error", body |-> <<>>],
   [kind |-> "ok", body |-> <<Raw("t", "a", Iso(1))>>]}

NextOverlap ==
  \/ \E c \in SearchCalls, keyword \in Keywords, pageSize \in OverlapPageSizes :
       StartSearch(c, keyword, pageSize)
  \/ \E c \in SearchCalls, o \in OverlapOutcomes : SearchNewsAPIResponse(c, o)
  \/ \E c \in SearchCalls, o \in OverlapOutcomes : SearchGNewsResponse(c, o)
  \/ Tick

SpecOverlap == Init /\ [][NextOverlap]_vars

\* Call c is at its cache.set in this step: it returns a list it built itself.
StoresResult(c) ==
  /\ sn[c].pc # "done"
  /\ sn'[c].pc = "done"
  /\ ~sn'[c].fromCache

\* Call c has issued a request of its own to the first configured provider.
IssuedOwnRequests(c) ==
  IF newsApiKey THEN sn[c].requests["newsapi"] = 1
                ELSE sn[c].requests["gnews"] = 1

\* Calls first and second have the same keyword and page size, and second made
\* its lookup while first was still waiting for a provider and no call with
\* these arguments had returned.
LookupBeforeStore(first, second) ==
  /\ first < second
  /\ sn[second].pc # "idle"
  /\ sn[first].keyword = sn[second].keyword
  /\ sn[first].pageSize = sn[second].pageSize
  /\ sn[second].after = {}

\* C28: when a searchNews call makes its lookup while an earlier call with the
\* same arguments has not stored yet, both calls issue provider requests of
\* their own; every store puts the storing call's result under the key, and
\* no other step changes the cache, so the entry left is that of the last
\* store.
C28_LookupAndStoreNotAtomic ==
  /\ [](\A first, second \in SearchCalls :
          LookupBeforeStore(first, second) =>
            /\ IssuedOwnRequests(first)
            /\ IssuedOwnRequests(second)
            /\ ~sn[first].fromCache
            /\ ~sn[second].fromCache)
  /\ [][/\ \A c \in SearchCalls :
            StoresResult(c) =>
              LET key == SearchKey(sn'[c].keyword, sn'[c].pageSize)
              IN /\ key \in DOMAIN cache'
                 /\ cache'[key].v = sn'[c].completion.value
        /\ (\A d \in SearchCalls : ~StoresResult(d)) => cache' = cache]_vars

\* C28 witness: two overlapping calls with the same arguments built different
\* lists; the first call stored after the second, and the cache holds the
\* first call's list.
C28_Witness ==
  \E first, second \in SearchCalls :
    /\ LookupBeforeStore(first, second)
    /\ sn[first].pc = "done"
    /\ sn[second].pc = "done"
    /\ sn[first].returnedAt > sn[second].returnedAt
    /\ sn[first].completion.value # sn[second].completion.value
    /\ cache[SearchKey(sn[first].keyword, sn[first].pageSize)].v
         = sn[first].completion.value

\* The number of provider requests call c has issued.
RequestsIssued(c) == sn[c].requests["newsapi"] + sn[c].requests["gnews"]

\* Call c went to the providers (or found none configured) and every request
\* it issued was rejected.
AllRequestsFailed(c) ==
  /\ sn[c].pc = "done"
  /\ ~sn[c].fromCache
  /\ sn[c].failures = RequestsIssued(c)

\* C29: a searchNews call whose requests all failed, or that found no provider
\* configured, leaves its empty list in the cache: a call with the same
\* arguments made before the TTL has elapsed since then, when no call with
\* these arguments has returned articles, returns the empty list from the
\* cache and issues no request.
C29_FailedSearchIsCached ==
  \A second \in SearchCalls :
    \A first \in sn[second].after :
      ( /\ AllRequestsFailed(first)
        /\ sn[second].startedAt <= sn[first].returnedAt + StdTTL
        /\ \A d \in sn[second].after : sn[d].completion.value = <<>> )
      => /\ sn[second].pc = "done"
         /\ sn[second].fromCache
         /\ sn[second].completion.value = <<>>
         /\ RequestsIssued(second) = 0

\* C29 witness: every request of the first call was rejected, and the same
\* search an hour later came back empty from the cache.
C29_Witness ==
  \E second \in SearchCalls :
    \E first \in sn[second].after :
      /\ AllRequestsFailed(first)
      /\ RequestsIssued(first) > 0
      /\ sn[second].startedAt > sn[first].returnedAt
      /\ sn[second].fromCache
      /\ sn[second].completion.value = <<>>

\* C29 witness without providers is reached too: no key is configured.
NoProviderSearchCached ==
  \E second \in SearchCalls :
    \E first \in sn[second].after :
      /\ AllRequestsFailed(first)
      /\ RequestsIssued(first) = 0
      /\ sn[second].fromCache

(***************************************************************************)
(* Account deletion (UserController.deleteAccount) and SpecAccount: signup *)
(* requests, preference updates and DELETE /users/account requests by      *)
(* token holders, served for as long as requests arrive.                   *)
(***************************************************************************)
\* The status DELETE /users/account answers with.
DeleteStatus(d, userId) ==
  IF ~authenticate(d, userId) THEN 401
  ELSE IF ~getUserById(d, userId).found THEN 404
  ELSE 200

\* DELETE /users/account by the holder of a token for userId:
\* user.deletedAt = new Date(), nothing else.
DeleteAccount(userId) ==
  /\ LET status == DeleteStatus(dataStore, userId)
         user == getUserById(dataStore, userId)
     IN /\ dataStore' = IF status = 200
                        THEN [dataStore EXCEPT !.users[user.email].deletedAt =
                                <<now>>]
                        ELSE dataStore
        /\ last' = Operation("deleteAccount", userId, NoArticleId,
                             status = 200, status, dataStore)
  /\ UNCHANGED <<constructed, rg, rq, fn>>
  /\ UNCHANGED newsVars

AccountSignups ==
  [email : {"a@x.io", "b@x.io"}, password : {"Passw0rd!"},
   preferences : {<<>>}]

AccountRegistrations == {1, 2}

\* The user ids of the tokens: the users the signups create, and one that is
\* never created.
AccountUserIds == {1, 2, 3}

AccountPreferenceLists == {<<>>, <<"sports">>}

NextAccount ==
  \/ \E r \in AccountRegistrations, body \in AccountSignups : Register(r, body)
  \/ \E r \in AccountRegistrations : RegisterHashed(r, TRUE)
  \/ \E userId \in AccountUserIds, preferences \in AccountPreferenceLists :
       UpdatePreferences(userId, preferences)
  \/ \E userId \in AccountUserIds : DeleteAccount(userId)
  \/ Tick

\* The server goes on serving the requests that arrive, and the clock runs.
SpecAccount ==
  InitStore /\ [][NextAccount]_vars /\ WF_vars(NextAccount) /\ WF_vars(Tick)

\* DELETE /users/account was answered 200 for the user with this id.
DeletionAccepted(userId) ==
  \E e \in DOMAIN dataStore.users :
    /\ dataStore.users[e].id = userId
    /\ dataStore.users[e].deletedAt # <<>>

\* C30: once DELETE /users/account has been answered 200 for a user, the user
\* is eventually gone from the Store (and authenticate, which looks the user
\* up, then rejects the user's token).
C30_DeletedAccountIsRemoved ==
  \A userId \in AccountUserIds :
    DeletionAccepted(userId) ~> ~authenticate(dataStore, userId)

\* A request with the token of a user whose deletion was accepted before it is
\* served as any other: the preference update is answered 200.
ServedAfterDeletion ==
  /\ last.op = "updatePreferences"
  /\ last.status = 200
  /\ \E e \in DOMAIN last.before.users :
       /\ last.before.users[e].id = last.userId
       /\ last.before.users[e].deletedAt # <<>>

====
